---- MODULE Spec2Model ----
(***************************************************************************)
(* Model of discord-bot.py: the bedtime reminder scheduler (check_bedtime, *)
(* a 30 s task loop), its escalation policy (get_escalation_level,         *)
(* get_ping_interval, get_message), the delivery routine (send_reminders)  *)
(* and the two chat commands (status, test).                               *)
(*                                                                         *)
(* Time is the wall clock in whole seconds since 00:00:00 of day 0.        *)
(* should_send_reminder returns minutes as a float; the model keeps the    *)
(* same quantity in seconds (minutes * 60), so every threshold of the      *)
(* policy is written as  k * Minute.                                       *)
(***************************************************************************)
EXTENDS Integers, Sequences, FiniteSets, TLC

VARIABLES
    config,            \* config.json as loaded at line 30-31
    clock,             \* wall clock at the latest handler invocation
    last_ping_time,    \* global, line 40
    escalation_level,  \* global, line 41
    pc,                \* the process and its check_bedtime task: "boot" |
                       \* "exited" | "no_loop" | "idle" | "sending" (awaiting
                       \* line 128) | "crashed" (the task loop has stopped)
    minutes_past,      \* check_bedtime local, line 107 (in seconds)
    current_level,     \* check_bedtime local, line 115
    now,               \* check_bedtime local, line 124
    out                \* what the latest handler step emitted

vars == <<config, clock, last_ping_time, escalation_level, pc,
          minutes_past, current_level, now, out>>

----------------------------------------------------------------------------
(* Bounds of the model *)

\* days 0..MaxDay of wall-clock time are explored
MaxDay == 1
\* config.user_ids holds 0..MaxUsers recipients
MaxUsers == 2

----------------------------------------------------------------------------
(* Values *)

\* Python's None; below every timestamp and every level
None == -1

\* seconds per minute: the divisor of line 55
Minute == 60

Day == 24 * 60 * Minute

Levels == 0 .. 4

----------------------------------------------------------------------------
(* Escalation policy, lines 59-94 *)

\* variant: the deadline itself still counts as before the deadline
get_escalation_level_late(minutes_past_bedtime) ==
    IF minutes_past_bedtime < (0 - 15) * Minute THEN None
    ELSE IF minutes_past_bedtime <= 0 THEN 0
    ELSE IF minutes_past_bedtime < 5 * Minute THEN 1
    ELSE IF minutes_past_bedtime < 15 * Minute THEN 2
    ELSE IF minutes_past_bedtime < 25 * Minute THEN 3
    ELSE 4

\* variant: the last level starts one second late
get_escalation_level_gap(minutes_past_bedtime) ==
    IF minutes_past_bedtime < (0 - 15) * Minute THEN None
    ELSE IF minutes_past_bedtime < 0 THEN 0
    ELSE IF minutes_past_bedtime < 5 * Minute THEN 1
    ELSE IF minutes_past_bedtime < 15 * Minute THEN 2
    ELSE IF minutes_past_bedtime <= 25 * Minute THEN 3
    ELSE 4

\* variant: the window opens 16 minutes before the deadline
get_escalation_level_early(minutes_past_bedtime) ==
    IF minutes_past_bedtime < (0 - 16) * Minute THEN None
    ELSE IF minutes_past_bedtime < 0 THEN 0
    ELSE IF minutes_past_bedtime < 5 * Minute THEN 1
    ELSE IF minutes_past_bedtime < 15 * Minute THEN 2
    ELSE IF minutes_past_bedtime < 25 * Minute THEN 3
    ELSE 4

\* minutes_past_bedtime is given in seconds (minutes * Minute)
get_escalation_level(minutes_past_bedtime) ==
    IF minutes_past_bedtime < (0 - 15) * Minute THEN None
    ELSE IF minutes_past_bedtime < 0 THEN 0
    ELSE IF minutes_past_bedtime < 5 * Minute THEN 1
    ELSE IF minutes_past_bedtime < 15 * Minute THEN 2
    ELSE IF minutes_past_bedtime < 25 * Minute THEN 3
    ELSE 4

\* variant: the second level waits half an hour between pings
get_ping_interval_slow1(level) ==
    CASE level = 0 -> 900
      [] level = 1 -> 1800
      [] level = 2 -> 300
      [] level = 3 -> 120
      [] level = 4 -> 60
      [] OTHER -> 300

\* variant: the third level pings less often than the second
get_ping_interval_slow2(level) ==
    CASE level = 0 -> 900
      [] level = 1 -> 300
      [] level = 2 -> 600
      [] level = 3 -> 120
      [] level = 4 -> 60
      [] OTHER -> 300

get_ping_interval(level) ==
    CASE level = 0 -> 900
      [] level = 1 -> 300
      [] level = 2 -> 300
      [] level = 3 -> 120
      [] level = 4 -> 60
      [] OTHER -> 300

get_message(level) ==
    CASE level = 0 -> "15 minutes until bedtime!"
      [] level = 1 -> "It's bedtime!"
      [] level = 2 -> "You should be in bed by now."
      [] level = 3 -> "SERIOUSLY, GO TO BED!"
      [] level = 4 -> "SLEEP NOW!!!"
      [] OTHER -> "Go to sleep!"

----------------------------------------------------------------------------
(* Elapsed time, lines 47-57 *)

\* variant: the minute of the configured bedtime is dropped
bedtime_datetime_hour_only(cfg, current) ==
    (current \div Day) * Day + cfg.bedtime.hour * 60 * Minute

\* variant: the deadline stays that of the day the process started
bedtime_datetime_first_day(cfg, current) ==
    cfg.bedtime.hour * 60 * Minute + cfg.bedtime.minute * Minute

\* datetime.combine(current.date(), bedtime): the deadline on the calendar
\* day of `current`
bedtime_datetime(cfg, current) ==
    (current \div Day) * Day
        + cfg.bedtime.hour * 60 * Minute + cfg.bedtime.minute * Minute

\* (current - bedtime_datetime).total_seconds(); the code divides by 60
should_send_reminder(cfg, current) ==
    current - bedtime_datetime(cfg, current)

\* int(minutes_past) of line 177: truncation toward zero
int_minutes(secs) ==
    IF secs >= 0 THEN secs \div Minute ELSE 0 - ((0 - secs) \div Minute)

----------------------------------------------------------------------------
(* Delivery, lines 131-164 *)

\* what one recipient's fetch_user / user.send can do
DmOutcomes == {"ok", "fetch_failed", "send_failed"}
\* what the guild/channel lookup and channel.send can do
BroadcastOutcomes == {"ok", "unreachable", "failed"}

\* variant: the first failing recipient ends the loop (no try/except)
RECURSIVE dm_calls_abort(_, _, _, _)
dm_calls_abort(user_ids, outcome, level, i) ==
    IF i > Len(user_ids) THEN <<>>
    ELSE <<[op |-> "dm", mentions |-> <<user_ids[i]>>, level |-> level,
            text |-> get_message(level), result |-> outcome[i]]>>
         \o (IF outcome[i] = "ok"
             THEN dm_calls_abort(user_ids, outcome, level, i + 1) ELSE <<>>)

\* lines 142-151: one attempt per user id, in order
RECURSIVE dm_calls(_, _, _, _)
dm_calls(user_ids, outcome, level, i) ==
    IF i > Len(user_ids) THEN <<>>
    ELSE <<[op |-> "dm", mentions |-> <<user_ids[i]>>, level |-> level,
            text |-> get_message(level), result |-> outcome[i]]>>
         \o dm_calls(user_ids, outcome, level, i + 1)

\* variant: a user joins the list only after user.send has returned
RECURSIVE fetched_users_delivered(_, _, _)
fetched_users_delivered(user_ids, outcome, i) ==
    IF i > Len(user_ids) THEN <<>>
    ELSE (IF outcome[i] = "ok" THEN <<user_ids[i]>> ELSE <<>>)
         \o fetched_users_delivered(user_ids, outcome, i + 1)

\* the list `users`: line 145 appends once fetch_user has returned, before
\* user.send is awaited
RECURSIVE fetched_users(_, _, _)
fetched_users(user_ids, outcome, i) ==
    IF i > Len(user_ids) THEN <<>>
    ELSE (IF outcome[i] = "fetch_failed" THEN <<>> ELSE <<user_ids[i]>>)
         \o fetched_users(user_ids, outcome, i + 1)

\* lines 154-164: at most one channel.send
broadcast_calls(cfg, users, level, bres) ==
    IF cfg.server_id # None /\ cfg.channel_id # None /\ users # <<>>
       /\ bres # "unreachable"
    THEN <<[op |-> "broadcast", mentions |-> users, level |-> level,
            text |-> get_message(level), result |-> bres]>>
    ELSE <<>>

\* variant: the channel is pinged before the direct messages
send_reminders_channel_first(cfg, level, outcome, bres) ==
    IF cfg.user_ids = <<>> THEN <<>>
    ELSE broadcast_calls(cfg, fetched_users(cfg.user_ids, outcome, 1),
                         level, bres)
         \o dm_calls(cfg.user_ids, outcome, level, 1)

\* the delivery calls send_reminders(level) makes, in order; lines 136-138
\* return before any call when no user id is configured
send_reminders(cfg, level, outcome, bres) ==
    IF cfg.user_ids = <<>> THEN <<>>
    ELSE dm_calls(cfg.user_ids, outcome, level, 1)
         \o broadcast_calls(cfg, fetched_users(cfg.user_ids, outcome, 1),
                            level, bres)

\* line 154: the guild and the channel are looked up only then
broadcast_attempted(cfg, outcome) ==
    /\ cfg.user_ids # <<>>
    /\ cfg.server_id # None /\ cfg.channel_id # None
    /\ fetched_users(cfg.user_ids, outcome, 1) # <<>>

----------------------------------------------------------------------------
(* Inputs *)

Bedtimes == {[hour |-> 22, minute |-> 30], [hour |-> 0, minute |-> 20]}

UserIdLists == {[i \in 1 .. n |-> 100 + i] : n \in 0 .. MaxUsers}

\* configurations of the scheduling specification: both deadlines, one
\* recipient, no broadcast destination
Configs ==
    [bedtime : Bedtimes, user_ids : {[i \in 1 .. 1 |-> 100 + i]},
     server_id : {None}, channel_id : {None}, token : {TRUE}]

\* configurations of the delivery specification: one deadline, every
\* recipient list and every combination of server_id and channel_id
DeliveryConfigs ==
    [bedtime : {[hour |-> 22, minute |-> 30]}, user_ids : UserIdLists,
     server_id : {None, 7}, channel_id : {None, 9}, token : {TRUE}]

\* config.json without a "bedtime" key
NoBedtime == [hour |-> None, minute |-> None]

\* "bedtime": "25:00", which time(25, 0) of line 51 refuses
BadBedtime == [hour |-> 25, minute |-> 0]

\* configurations of the startup specification: a good, a missing and a
\* malformed deadline, each with and without DISCORD_BOT_TOKEN
StartupConfigs ==
    [bedtime : {[hour |-> 22, minute |-> 30], NoBedtime, BadBedtime},
     user_ids : {[i \in 1 .. 1 |-> 100 + i]},
     server_id : {None}, channel_id : {None}, token : BOOLEAN]

\* instants at which a handler may run, relative to the deadline of the day
Offsets ==
    {0 - 960, 0 - 901, 0 - 900, 0 - 60, 0 - 1, 0, 299, 300, 360, 599, 600,
     601, 899, 900, 1019, 1020, 1021, 1200, 1499, 1500, 1559, 1560, 1561,
     1800, 1810}

TimesOfDay(cfg) ==
    {s \in {cfg.bedtime.hour * 60 * Minute + cfg.bedtime.minute * Minute + o :
                o \in Offsets} \cup {0, Day - 30} : s >= 0 /\ s < Day}

Instants(cfg) == {d * Day + s : d \in 0 .. MaxDay, s \in TimesOfDay(cfg)}

\* the few instants of the delivery specification: before the window,
\* its opening, the deadline, 299 s later, and the start of the last level
DeliveryOffsets == {0 - 960, 0 - 900, 0, 299, 1500}

DeliveryInstants(cfg) ==
    {cfg.bedtime.hour * 60 * Minute + cfg.bedtime.minute * Minute + o :
        o \in DeliveryOffsets}

Outcomes(cfg) == [1 .. Len(cfg.user_ids) -> DmOutcomes]

\* the broadcast outcomes worth telling apart: none is consulted unless
\* both server_id and channel_id are configured (line 154)
BroadcastResults(cfg) ==
    IF cfg.server_id # None /\ cfg.channel_id # None
    THEN BroadcastOutcomes ELSE {"ok"}

\* What a handler step emitted: `by` the handler, `arg` the level given to
\* the test command, `level` the level send_reminders was called with,
\* `outcome` and `bres` what the delivery calls met (as far as they were
\* consulted), `calls` the delivery calls made, `reply` the ctx.send text.
Emit(by, arg, level, outcome, bres, calls, reply) ==
    [by |-> by, arg |-> arg, level |-> level, outcome |-> outcome,
     bres |-> bres, calls |-> calls, reply |-> reply]

NoReply == <<"none", None, None>>

Quiet(by, arg, reply) == Emit(by, arg, None, <<>>, "none", <<>>, reply)

\* the record of one completed send_reminders(level)
Sent(by, arg, cfg, level, outcome, bres, reply) ==
    Emit(by, arg, level,
         IF cfg.user_ids = <<>> THEN <<>> ELSE outcome,
         IF broadcast_attempted(cfg, outcome) THEN bres ELSE "none",
         send_reminders(cfg, level, outcome, bres), reply)

----------------------------------------------------------------------------
(* State machine *)

InitWith(configs) ==
    /\ config \in configs
    /\ clock = 0
    /\ last_ping_time = None
    /\ escalation_level = 0
    /\ pc = "boot"
    /\ minutes_past = None
    /\ current_level = None
    /\ now = None
    /\ out = Quiet("start", None, NoReply)

Init == InitWith(Configs)

InitDelivery == InitWith(DeliveryConfigs)

InitStartup == InitWith(StartupConfigs)

\* lines 50-51: config['bedtime'] is there and split(':'), int() and
\* time() accept it
parseable(cfg) ==
    /\ cfg.bedtime # NoBedtime
    /\ cfg.bedtime.hour \in 0 .. 23 /\ cfg.bedtime.minute \in 0 .. 59

\* __main__, lines 191-202, and on_ready, lines 97-100: without a token
\* bot.run is never called; config["bedtime"] of line 99 raises KeyError
\* before check_bedtime.start() when the key is missing
Start ==
    /\ pc = "boot"
    /\ pc' = IF ~config.token THEN "exited"
             ELSE IF config.bedtime = NoBedtime THEN "no_loop"
             ELSE "idle"
    /\ UNCHANGED <<config, clock, last_ping_time, escalation_level,
                   minutes_past, current_level, now, out>>

\* the bot is connected and answers commands
Running == pc \in {"no_loop", "idle", "sending", "crashed"}

Raised == <<"raised", None, None>>

\* variant: strictly more than the interval must have passed
due_strict(last, t, interval) == last = None \/ t - last > interval

\* line 127
due(last, t, interval) == last = None \/ t - last >= interval

\* variant: the time stamp is stored before send_reminders is awaited
TickBegin_stamps_first(t) ==
    /\ pc = "idle"
    /\ t > clock
    /\ clock' = t
    /\ IF ~parseable(config)
       THEN /\ pc' = "crashed"
            /\ out' = Quiet("tick", None, Raised)
            /\ UNCHANGED <<last_ping_time, escalation_level, minutes_past,
                           current_level, now>>
       ELSE /\ minutes_past' = should_send_reminder(config, t)
            /\ current_level' = get_escalation_level(minutes_past')
            /\ IF current_level' = None
               THEN /\ out' = Quiet("tick", None, NoReply)
                    /\ UNCHANGED <<last_ping_time, escalation_level, pc, now>>
               ELSE /\ escalation_level' = current_level'
                    /\ now' = t
                    /\ IF due(last_ping_time, now',
                              get_ping_interval(current_level'))
                       THEN /\ pc' = "sending"
                            /\ last_ping_time' = now'
                            /\ out' = Emit("tick", None, current_level', <<>>,
                                           "none", <<>>, NoReply)
                       ELSE /\ pc' = "idle"
                            /\ UNCHANGED last_ping_time
                            /\ out' = Quiet("tick", None, NoReply)
    /\ UNCHANGED config

\* check_bedtime, lines 103-128, up to the await of send_reminders.
\* should_send_reminder never returns None, so lines 109-113 never run;
\* an out-of-window tick returns at line 118 and writes no global.
\* A bedtime that lines 50-51 cannot parse raises ValueError out of the
\* task, which ends the loop.
TickBegin(t) ==
    /\ pc = "idle"
    /\ t > clock
    /\ clock' = t
    /\ IF ~parseable(config)
       THEN /\ pc' = "crashed"
            /\ out' = Quiet("tick", None, Raised)
            /\ UNCHANGED <<last_ping_time, escalation_level, minutes_past,
                           current_level, now>>
       ELSE /\ minutes_past' = should_send_reminder(config, t)
            /\ current_level' = get_escalation_level(minutes_past')
            /\ IF current_level' = None
               THEN /\ out' = Quiet("tick", None, NoReply)
                    /\ UNCHANGED <<last_ping_time, escalation_level, pc, now>>
               ELSE /\ escalation_level' = current_level'
                    /\ now' = t
                    /\ IF due(last_ping_time, now',
                              get_ping_interval(current_level'))
                       THEN /\ pc' = "sending"
                            /\ out' = Emit("tick", None, current_level', <<>>,
                                           "none", <<>>, NoReply)
                       ELSE /\ pc' = "idle"
                            /\ out' = Quiet("tick", None, NoReply)
                    /\ UNCHANGED last_ping_time
    /\ UNCHANGED config

\* variant: the timestamp is stored only when some delivery call succeeded
TickEnd_stamps_on_success(outcome, bres) ==
    /\ pc = "sending"
    /\ out' = Sent("tick", None, config, current_level, outcome, bres, NoReply)
    /\ last_ping_time' =
          IF \E i \in 1 .. Len(out'.calls) : out'.calls[i].result = "ok"
          THEN now ELSE last_ping_time
    /\ pc' = "idle"
    /\ UNCHANGED <<config, clock, escalation_level, minutes_past,
                   current_level, now>>

\* check_bedtime, lines 128-129: send_reminders returns, the timestamp of
\* line 124 is stored
TickEnd(outcome, bres) ==
    /\ pc = "sending"
    /\ out' = Sent("tick", None, config, current_level, outcome, bres, NoReply)
    /\ last_ping_time' = now
    /\ pc' = "idle"
    /\ UNCHANGED <<config, clock, escalation_level, minutes_past,
                   current_level, now>>

\* variant: status stores the level it computed
Status_writes ==
    /\ LET mp == should_send_reminder(config, clock)
           lvl == get_escalation_level(mp)
       IN /\ out' = IF lvl = None
                    THEN Quiet("status", None, <<"not_in_window", None, None>>)
                    ELSE Quiet("status", None,
                               <<"escalation", lvl, int_minutes(mp)>>)
          /\ escalation_level' = IF lvl = None THEN 0 ELSE lvl
          /\ last_ping_time' = IF lvl = None THEN None ELSE last_ping_time
    /\ UNCHANGED <<config, clock, pc, minutes_past, current_level, now>>

\* the status command, lines 166-177; it runs at the current wall clock,
\* and line 169 raises when the bedtime cannot be parsed
Status ==
    /\ LET mp == should_send_reminder(config, clock)
           lvl == get_escalation_level(mp)
       IN out' = IF ~parseable(config)
                 THEN Quiet("status", None, Raised)
                 ELSE IF lvl = None
                 THEN Quiet("status", None, <<"not_in_window", None, None>>)
                 ELSE Quiet("status", None,
                            <<"escalation", lvl, int_minutes(mp)>>)
    /\ UNCHANGED <<config, clock, last_ping_time, escalation_level, pc,
                   minutes_past, current_level, now>>

\* variant: a test dispatch is recorded like a tick's
Test_stamps(owner, level, outcome, bres) ==
    /\ out' = IF ~owner
              THEN Quiet("test_not_owner", level, NoReply)
              ELSE IF 0 <= level /\ level <= 4
              THEN Sent("test", level, config, level, outcome, bres,
                        <<"sent", level, Len(config.user_ids)>>)
              ELSE Quiet("test", level, <<"usage", None, None>>)
    /\ last_ping_time' = IF owner /\ 0 <= level /\ level <= 4
                         THEN clock ELSE last_ping_time
    /\ UNCHANGED <<config, clock, escalation_level, pc,
                   minutes_past, current_level, now>>

\* variant: the upper limit of the level is off by one
Test_accepts_5(owner, level, outcome, bres) ==
    /\ out' = IF ~owner
              THEN Quiet("test_not_owner", level, NoReply)
              ELSE IF 0 <= level /\ level <= 5
              THEN Sent("test", level, config, level,
                        IF level = 5
                        THEN [i \in 1 .. Len(config.user_ids) |-> "ok"]
                        ELSE outcome,
                        bres, <<"sent", level, Len(config.user_ids)>>)
              ELSE Quiet("test", level, <<"usage", None, None>>)
    /\ UNCHANGED <<config, clock, last_ping_time, escalation_level, pc,
                   minutes_past, current_level, now>>

\* the test command, lines 179-188; is_owner() of line 180 refuses any
\* other caller before the body runs
Test(owner, level, outcome, bres) ==
    /\ out' = IF ~owner
              THEN Quiet("test_not_owner", level, NoReply)
              ELSE IF 0 <= level /\ level <= 4
              THEN Sent("test", level, config, level, outcome, bres,
                        <<"sent", level, Len(config.user_ids)>>)
              ELSE Quiet("test", level, <<"usage", None, None>>)
    /\ UNCHANGED <<config, clock, last_ping_time, escalation_level, pc,
                   minutes_past, current_level, now>>

\* the levels given to the test command: 0..4 and one beyond either end
TestLevels == (0 - 1) .. 5

Commands ==
    /\ Running
    /\ \/ Status
       \/ \E level \in TestLevels : Test(FALSE, level, <<>>, "ok")
       \/ \E level \in TestLevels \ Levels : Test(TRUE, level, <<>>, "ok")
       \/ \E level \in Levels, o \in Outcomes(config),
             b \in BroadcastResults(config) : Test(TRUE, level, o, b)

Deliver ==
    \E o \in Outcomes(config), b \in BroadcastResults(config) : TickEnd(o, b)

Next ==
    \/ Start
    \/ \E t \in Instants(config) : TickBegin(t)
    \/ Deliver
    \/ Commands

Spec == Init /\ [][Next]_vars

NextDelivery ==
    \/ Start
    \/ \E t \in DeliveryInstants(config) : TickBegin(t)
    \/ Deliver
    \/ Commands

SpecDelivery == InitDelivery /\ [][NextDelivery]_vars

SpecStartup == InitStartup /\ [][Next]_vars

\* The loop as tasks.loop(seconds=30) of line 102 runs it: the first
\* iteration when check_bedtime.start() is called, at some instant shortly
\* before the window opens or inside it, the next ones 30 s apart, up to
\* LoopEnd seconds past the deadline.
TickPeriod == 30

LoopEnd == 1680

LoopStarts(cfg) ==
    {cfg.bedtime.hour * 60 * Minute + cfg.bedtime.minute * Minute + o :
        o \in {0 - 960, 0 - 959, 0 - 946, 0 - 931, 310}}

InitLoop ==
    /\ InitWith(Configs)
    /\ config.bedtime = [hour |-> 22, minute |-> 30]

LoopTick ==
    \/ /\ clock = 0
       /\ \E t \in LoopStarts(config) : TickBegin(t)
    \/ /\ clock > 0
       /\ clock + TickPeriod <= bedtime_datetime(config, clock) + LoopEnd
       /\ TickBegin(clock + TickPeriod)

NextLoop ==
    \/ Start
    \/ LoopTick
    \/ Deliver
    \/ Commands

SpecLoop ==
    InitLoop /\ [][NextLoop]_vars /\ WF_vars(LoopTick) /\ WF_vars(Deliver)

\* The policy applied on its own: get_ping_interval for a pair of levels
\* taken from 0..4 and beyond, None included.
PolicyLevels == (0 - 3) .. 8

InitPolicy ==
    /\ InitWith(Configs)
    /\ config.bedtime = [hour |-> 22, minute |-> 30]

Interval(a, b) ==
    /\ out' = Emit("interval", a, b, <<>>, "none", <<>>,
                   <<"interval", get_ping_interval(a), get_ping_interval(b)>>)
    /\ UNCHANGED <<config, clock, last_ping_time, escalation_level, pc,
                   minutes_past, current_level, now>>

NextPolicy == \E a \in PolicyLevels, b \in PolicyLevels : Interval(a, b)

SpecPolicy == InitPolicy /\ [][NextPolicy]_vars

----------------------------------------------------------------------------
(* The statements of the specification, in its own terms *)

\* the value escalation_level holds at start and after the reset of line 112
Inactive == 0

\* minInterval: PreWarning 900 s, AtDeadline 300 s, Escalating5m 300 s,
\* Escalating2m 120 s, MaxUrgency 60 s
MinIntervalTable == <<900, 300, 300, 120, 60>>

MinInterval(L) == MinIntervalTable[L + 1]

\* the half-open intervals of classify, in minutes; hi = None is unbounded
PolicyTable ==
    {[lo |-> 0 - 15, hi |-> 0, level |-> 0],
     [lo |-> 0, hi |-> 5, level |-> 1],
     [lo |-> 5, hi |-> 15, level |-> 2],
     [lo |-> 15, hi |-> 25, level |-> 3],
     [lo |-> 25, hi |-> None, level |-> 4]}

\* rows whose interval holds an offset given in seconds
RowsHolding(secs) ==
    {r \in PolicyTable :
        r.lo * 60 <= secs /\ (r.hi = None \/ secs < r.hi * 60)}

\* classify: Inactive (None) below -15 minutes, else the row's level
Classify(secs) ==
    IF secs < (0 - 15) * 60 THEN None
    ELSE (CHOOSE r \in RowsHolding(secs) : TRUE).level

\* now - deadlineToday, in seconds
Elapsed(cfg, t) ==
    (t % 86400) - (cfg.bedtime.hour * 3600 + cfg.bedtime.minute * 60)

\* a step that is a tick: only check_bedtime advances the clock
IsTick == clock' # clock

\* the tick of this step decided to dispatch / the rate limit says it is due
Fires == pc' = "sending"
DueAt(L) == last_ping_time = None \/ clock' - last_ping_time >= MinInterval(L)

\* the latest handler step was a tick that finished a dispatch
TickDone == out.by = "tick" /\ pc = "idle" /\ out.level # None

\* the DM calls of `o` are one per configured recipient, in order
EveryRecipientAttempted(o) ==
    /\ Len(o.calls) >= Len(config.user_ids)
    /\ \A i \in 1 .. Len(config.user_ids) :
          /\ o.calls[i].op = "dm"
          /\ o.calls[i].mentions = <<config.user_ids[i]>>
          /\ o.calls[i].level = o.level

----------------------------------------------------------------------------
\* C1: a tick inside the window (minutesPast >= -15) at level L dispatches
\* if and only if lastNotifiedAt is null or now - lastNotifiedAt is at
\* least minInterval(L); a tick that does not dispatch emits nothing.
C1_RateLimit ==
    [][(IsTick /\ minutes_past' >= (0 - 15) * 60) =>
          /\ Fires <=> DueAt(current_level')
          /\ out'.calls = <<>>
          /\ out'.level = (IF DueAt(current_level')
                           THEN current_level' ELSE None)]_vars

\* C1 witness: a MaxUrgency tick one second short of the 60 s interval
\* after a dispatch emitted nothing
C1_Witness ==
    /\ out.by = "tick" /\ pc = "idle" /\ out.level = None
    /\ current_level = 4 /\ last_ping_time # None
    /\ now - last_ping_time = MinInterval(4) - 1

\* C2 (as claimed): after a tick with minutesPast < -15 the state is
\* lastNotifiedAt = null and currentLevel = Inactive.
C2_WindowReset ==
    (out.by = "tick" /\ minutes_past < (0 - 15) * 60) =>
        (last_ping_time = None /\ escalation_level = Inactive)

\* C3 (as claimed): the first tick inside the window after a tick outside
\* it dispatches, whatever lastNotifiedAt was.
C3_FiresAfterOutOfWindow ==
    [][(IsTick /\ clock > 0 /\ current_level = None
        /\ minutes_past < (0 - 15) * 60
        /\ minutes_past' >= (0 - 15) * 60) => Fires]_vars

C5_NoDispatchOutOfWindow ==
    (out.by = "tick" /\ minutes_past < (0 - 15) * 60) =>
        (pc = "idle" /\ out.level = None /\ out.calls = <<>>)

\* C5 witness: a tick before the window, run while a dispatch of an
\* earlier window is still recorded
C5_Witness ==
    /\ out.by = "tick" /\ minutes_past < (0 - 15) * 60
    /\ last_ping_time # None /\ escalation_level = 4

\* C6: forceNotify(level) with 0 <= level <= 4 dispatches at that level
\* to every recipient without consulting the rate limit, leaves
\* lastNotifiedAt and currentLevel as they were, and the tick that follows
\* it dispatches exactly when it would have without it.
C6_ForceNotify ==
    [][/\ (out'.by = "test" /\ out'.arg \in 0 .. 4) =>
            /\ out'.level = out'.arg
            /\ EveryRecipientAttempted(out')
            /\ last_ping_time' = last_ping_time
            /\ escalation_level' = escalation_level
       /\ (out.by = "test" /\ out.arg \in 0 .. 4 /\ IsTick
           /\ minutes_past' >= (0 - 15) * 60) =>
            (Fires <=> DueAt(current_level'))]_vars

\* C6 witness: forceNotify(2) delivered less than any interval after a
\* recorded dispatch, whose time stamp is still the tick's
C6_Witness ==
    /\ out.by = "test" /\ out.arg = 2 /\ out.calls # <<>>
    /\ last_ping_time # None /\ last_ping_time = now
    /\ clock - last_ping_time < MinInterval(4)

\* C7: a status query changes neither lastNotifiedAt nor currentLevel,
\* and the tick that follows it dispatches exactly when it would have
\* without it.
C7_StatusReadOnly ==
    [][/\ out'.by = "status" =>
            /\ last_ping_time' = last_ping_time
            /\ escalation_level' = escalation_level
       /\ (out.by = "status" /\ IsTick
           /\ minutes_past' >= (0 - 15) * 60) =>
            (Fires <=> DueAt(current_level'))]_vars

\* C7 witness: a status query answered outside the window while a
\* dispatch of an earlier window is recorded
C7_Witness ==
    /\ out.by = "status" /\ out.reply[1] = "not_in_window"
    /\ last_ping_time # None /\ escalation_level = 4

\* C8: classify maps every minutesPast to exactly one outcome: Inactive
\* below -15, then PreWarning, AtDeadline, Escalating5m, Escalating2m and
\* MaxUrgency on [-15,0), [0,5), [5,15), [15,25) and [25,oo), each boundary
\* in the higher interval.
C8_ClassifyPartition ==
    clock > 0 =>
        /\ minutes_past < (0 - 15) * 60 =>
              (current_level = None /\ RowsHolding(minutes_past) = {})
        /\ minutes_past >= (0 - 15) * 60 =>
              /\ Cardinality(RowsHolding(minutes_past)) = 1
              /\ \A r \in RowsHolding(minutes_past) : current_level = r.level

\* C8 witness: the boundary 25 minutes is classified MaxUrgency
C8_Witness ==
    clock > 0 /\ minutes_past = 25 * 60 /\ current_level = 4

\* C9: after a tick inside the window currentLevel is
\* classify((now - deadlineToday) / 60) and a dispatch of that tick carries
\* that level; with deadline 22:30, ticks at 22:29, 22:30, 22:36, 22:50 and
\* 23:00 give levels 0, 1, 2, 3 and 4.
C9_LevelOfTick ==
    (out.by = "tick" /\ clock > 0
     /\ Elapsed(config, clock) >= (0 - 15) * 60) =>
        /\ escalation_level = Classify(Elapsed(config, clock))
        /\ out.level \in {None, escalation_level}
        /\ \A i \in 1 .. Len(out.calls) : out.calls[i].level = escalation_level
        /\ (config.bedtime = [hour |-> 22, minute |-> 30]) =>
              /\ clock % 86400 = 22 * 3600 + 29 * 60 => escalation_level = 0
              /\ clock % 86400 = 22 * 3600 + 30 * 60 => escalation_level = 1
              /\ clock % 86400 = 22 * 3600 + 36 * 60 => escalation_level = 2
              /\ clock % 86400 = 22 * 3600 + 50 * 60 => escalation_level = 3
              /\ clock % 86400 = 23 * 3600 => escalation_level = 4

\* C9 witness: deadline 22:30, the tick at 23:00 has delivered at level 4
C9_Witness ==
    /\ config.bedtime = [hour |-> 22, minute |-> 30]
    /\ TickDone /\ clock = 23 * 3600
    /\ escalation_level = 4 /\ out.level = 4 /\ out.calls # <<>>

\* C10: whichever recipients' direct delivery fails, every recipient is
\* attempted in order, the broadcast is still made when a destination is
\* configured and reachable and a recipient was resolved, and the tick ends
\* with currentLevel = level and lastNotifiedAt = now.
C10_DeliveryErrorsRecovered ==
    TickDone =>
        /\ last_ping_time = now
        /\ escalation_level = out.level
        /\ config.user_ids # <<>> => EveryRecipientAttempted(out)
        /\ (/\ config.server_id # None /\ config.channel_id # None
            /\ \E i \in 1 .. Len(config.user_ids) :
                   out.outcome[i] # "fetch_failed"
            /\ out.bres # "unreachable") =>
              /\ Len(out.calls) = Len(config.user_ids) + 1
              /\ out.calls[Len(out.calls)].op = "broadcast"

\* C10 witness: the first of two recipients failed, the second was
\* delivered to, the broadcast went out and the tick recorded its time
C10_Witness ==
    /\ TickDone /\ Len(config.user_ids) = 2
    /\ out.outcome[1] = "send_failed" /\ out.outcome[2] = "ok"
    /\ out.calls[2].result = "ok"
    /\ Len(out.calls) = 3 /\ out.calls[3].op = "broadcast"
    /\ last_ping_time = now

\* the latest handler step completed a send_reminders call
DispatchDone ==
    out.level # None /\ (out.by = "test" \/ (out.by = "tick" /\ pc = "idle"))

\* the broadcast calls among the delivery calls of the latest step
BroadcastsOf(o) ==
    {i \in 1 .. Len(o.calls) : o.calls[i].op = "broadcast"}

\* the recipients whose direct delivery ended with the given results
RecipientsWith(o, results) ==
    {config.user_ids[i] : i \in {j \in 1 .. Len(o.outcome) :
                                     o.outcome[j] \in results}}

\* a sequence lists exactly the members of a set, in rising order
ListsExactly(seq, set) ==
    /\ {seq[i] : i \in 1 .. Len(seq)} = set
    /\ \A i, j \in 1 .. Len(seq) : i < j => seq[i] < seq[j]

\* C11 (as claimed): the broadcast of a dispatch mentions exactly the
\* recipients whose direct delivery succeeded, and there is no broadcast
\* when none succeeded.
C11_Claim ==
    DispatchDone =>
        /\ \A i \in BroadcastsOf(out) :
              ListsExactly(out.calls[i].mentions, RecipientsWith(out, {"ok"}))
        /\ RecipientsWith(out, {"ok"}) = {} => BroadcastsOf(out) = {}

\* C11 (amended): the broadcast of a dispatch mentions exactly the
\* recipients whose user lookup succeeded, in configuration order, whether
\* or not the direct message to them was delivered; a recipient whose
\* lookup failed is never mentioned, and there is no broadcast when no
\* lookup succeeded.
C11_Amended ==
    DispatchDone =>
        /\ \A i \in BroadcastsOf(out) :
              ListsExactly(out.calls[i].mentions,
                           RecipientsWith(out, {"ok", "send_failed"}))
        /\ RecipientsWith(out, {"ok", "send_failed"}) = {} =>
              BroadcastsOf(out) = {}

\* C11 witness: the direct message to the first of two recipients failed
\* and the broadcast mentions both
C11_Witness ==
    /\ DispatchDone /\ Len(config.user_ids) = 2
    /\ out.outcome[1] = "send_failed" /\ out.outcome[2] = "ok"
    /\ \E i \in BroadcastsOf(out) :
          out.calls[i].mentions = config.user_ids

\* C12: a test command by the owner with a level outside 0..4 is answered
\* with the usage message, makes no direct or broadcast delivery call and
\* leaves lastNotifiedAt and currentLevel as they were.
C12_InvalidLevelRejected ==
    [][(out'.by = "test" /\ out'.arg \notin 0 .. 4) =>
          /\ out'.reply = <<"usage", None, None>>
          /\ out'.calls = <<>> /\ out'.level = None
          /\ last_ping_time' = last_ping_time
          /\ escalation_level' = escalation_level]_vars

\* C12 witness: test 5 was refused with two recipients and a broadcast
\* destination configured, after a dispatch had been recorded
C12_Witness ==
    /\ out.by = "test" /\ out.arg = 5 /\ out.reply[1] = "usage"
    /\ out.calls = <<>>
    /\ Len(config.user_ids) = 2
    /\ config.server_id # None /\ config.channel_id # None
    /\ last_ping_time # None

\* a configuration error: no credential, or a deadline that is missing or
\* is not a time of day HH:MM
ConfigError ==
    \/ ~config.token
    \/ config.bedtime = NoBedtime
    \/ config.bedtime.hour \notin 0 .. 23
    \/ config.bedtime.minute \notin 0 .. 59

\* C13 (as claimed): with a configuration error no tick ever executes and
\* no notification is ever dispatched.
C13_ConfigErrorFatal ==
    ConfigError => (out.by # "tick" /\ out.level = None /\ out.calls = <<>>)

\* C14 (as claimed): when a due tick yields to the delivery, currentLevel
\* = level and lastNotifiedAt = now are already written, and no tick
\* starts while a dispatch is in flight.
C14_Claim ==
    [][/\ pc' = "sending" =>
            (escalation_level' = current_level' /\ last_ping_time' = now')
       /\ pc = "sending" => ~IsTick]_vars

\* C14 (amended): when a due tick yields to the delivery only currentLevel
\* = level is written; lastNotifiedAt keeps its previous, older value for
\* as long as the delivery is in flight, which is what an interleaved
\* command handler finds, and becomes the time read before the delivery
\* only when the delivery has returned; no tick starts while a dispatch is
\* in flight.
C14_Amended ==
    [][/\ pc' = "sending" =>
            /\ escalation_level' = current_level'
            /\ last_ping_time' = last_ping_time
            /\ last_ping_time' < now' /\ now' = clock'
       /\ pc = "sending" => ~IsTick
       /\ (pc = "sending" /\ pc' = "idle") =>
            (last_ping_time' = now /\ now' = now)]_vars

\* C14 witness: a status query answered while a delivery is in flight,
\* the recorded time still that of an earlier dispatch
C14_Witness ==
    /\ pc = "sending" /\ out.by = "status"
    /\ last_ping_time # None /\ last_ping_time < now
    /\ escalation_level = current_level

\* the calendar day and the time of day of an instant, the deadline as a
\* time of day
DayOf(t) == t \div 86400
TimeOfDay(t) == t % 86400
DeadlineOfDay == config.bedtime.hour * 3600 + config.bedtime.minute * 60

\* C15 (as claimed): from a tick at or after the deadline on, the level
\* computed by the next tick is never lower, across midnight too.
C15_Claim ==
    [][(IsTick /\ clock > 0 /\ minutes_past >= 0) =>
          current_level' >= current_level]_vars

\* C15 (amended): from a tick at or after the deadline on, the level
\* computed by the next tick is never lower as long as that tick falls on
\* the same calendar day; a tick after midnight measures minutesPast from
\* the new day's deadline, so until that deadline minutesPast is negative
\* and the level has dropped to Inactive or PreWarning.
C15_Amended ==
    [][(IsTick /\ clock > 0 /\ minutes_past >= 0) =>
          /\ DayOf(clock') = DayOf(clock) =>
                (minutes_past' > minutes_past
                 /\ current_level' >= current_level)
          /\ (DayOf(clock') > DayOf(clock)
              /\ TimeOfDay(clock') < DeadlineOfDay) =>
                /\ minutes_past' = TimeOfDay(clock') - DeadlineOfDay
                /\ current_level' \in {None, 0}
                /\ current_level' < current_level]_vars

\* C15 witness: the tick at 00:00:00 of the next day found itself outside
\* the window after the previous day had reached MaxUrgency
C15_Witness ==
    /\ out.by = "tick" /\ clock = 86400
    /\ minutes_past < 0 /\ current_level = None
    /\ escalation_level = 4 /\ last_ping_time # None

\* C16: minInterval is 900, 300, 300, 120 and 60 seconds for the levels
\* 0..4, so it never rises with the level, and it is 300 seconds for any
\* level outside the table.
C16_MinInterval ==
    out.by = "interval" =>
        LET a == out.arg
            b == out.level
            ia == out.reply[2]
            ib == out.reply[3]
        IN /\ a \in 0 .. 4 => ia = MinIntervalTable[a + 1]
           /\ a \notin 0 .. 4 => ia = 300
           /\ (a \in 0 .. 4 /\ b \in 0 .. 4 /\ a <= b) => ia >= ib

\* C16 witness: Escalating5m against a level outside the table: 300 s both
C16_Witness ==
    /\ out.by = "interval" /\ out.arg = 2 /\ out.level = 7
    /\ out.reply = <<"interval", 300, 300>>

\* the direct-delivery calls among the delivery calls of the latest step
DirectsOf(o) ==
    {i \in 1 .. Len(o.calls) : o.calls[i].op = "dm"}

\* C17: within one dispatch, from tick or from the test command, direct
\* delivery is attempted exactly once per configured recipient, in
\* configuration order; at most one broadcast call is made, it comes after
\* every direct attempt, and only when both group and channel are configured.
C17_DispatchShape ==
    DispatchDone =>
        LET n == Len(config.user_ids)
        IN /\ DirectsOf(out) = 1 .. n
           /\ \A i \in 1 .. n :
                 out.calls[i].mentions = <<config.user_ids[i]>>
           /\ Cardinality(BroadcastsOf(out)) <= 1
           /\ \A i \in BroadcastsOf(out) :
                 /\ i = n + 1
                 /\ config.server_id # None /\ config.channel_id # None
           /\ Len(out.calls) <= n + 1

\* C17 witness: a test dispatch to two recipients, both delivered to, then
\* the one broadcast as third call
C17_Witness ==
    /\ out.by = "test" /\ DispatchDone /\ Len(config.user_ids) = 2
    /\ out.outcome = <<"ok", "ok">>
    /\ Len(out.calls) = 3 /\ BroadcastsOf(out) = {3}
    /\ out.calls[3].result = "ok"

\* no delivery call of the step succeeded
AllFailed(o) ==
    \A i \in 1 .. Len(o.calls) : o.calls[i].result # "ok"

\* no two delivery calls of the step are the same call
NoCallRepeated(o) ==
    \A i, j \in 1 .. Len(o.calls) :
        (i # j /\ o.calls[i].op = o.calls[j].op) =>
            o.calls[i].mentions # o.calls[j].mentions

\* C18: a due tick whose dispatch fails for every recipient and for the
\* broadcast, or that has no recipient, still sets lastNotifiedAt to its
\* now and repeats no delivery call; and a later tick whose level's
\* minInterval has not elapsed since lastNotifiedAt makes no delivery call.
C18_NoRetry ==
    [][/\ (pc = "sending" /\ pc' = "idle" /\ AllFailed(out')) =>
             /\ last_ping_time' = now /\ now = clock
             /\ NoCallRepeated(out')
             /\ Len(out'.calls) <= Len(config.user_ids) + 1
       /\ (/\ IsTick /\ current_level' \in Levels /\ last_ping_time # None
           /\ clock' - last_ping_time < MinInterval(current_level')) =>
             /\ ~Fires
             /\ out'.calls = <<>>
             /\ last_ping_time' = last_ping_time]_vars

\* C18 witness: the tick at the deadline met a failed lookup, a failed
\* direct message and a failed broadcast, and recorded its time
C18_Witness ==
    /\ TickDone /\ Len(config.user_ids) = 2
    /\ clock = 22 * 3600 + 30 * 60
    /\ out.outcome = <<"fetch_failed", "send_failed">>
    /\ out.bres = "failed" /\ Len(out.calls) = 3 /\ AllFailed(out)
    /\ last_ping_time = clock

\* the level of an instant
LevelAt(t) == get_escalation_level(should_send_reminder(config, t))

\* C19: with ticks every 30 s and minutesPast in the window, a tick
\* dispatches as soon as minInterval(level) has elapsed since
\* lastNotifiedAt, or lastNotifiedAt is null; so two consecutive tick
\* dispatches at one level L are at least minInterval(L) and less than
\* minInterval(L) + 30 s apart.
C19_BoundedResponse ==
    [][(IsTick /\ current_level' \in Levels) =>
          /\ DueAt(current_level') => Fires
          /\ (/\ Fires /\ last_ping_time # None
              /\ LevelAt(last_ping_time) = current_level') =>
                /\ clock' - last_ping_time >= MinInterval(current_level')
                /\ clock' - last_ping_time <
                      MinInterval(current_level') + TickPeriod]_vars

\* C19 witness: a tick at Escalating2m dispatches 120 s after the previous
\* dispatch at that level
C19_Witness ==
    /\ pc = "sending" /\ current_level = 3
    /\ last_ping_time # None /\ LevelAt(last_ping_time) = 3
    /\ now - last_ping_time = 120

\* a tick has dispatched at level L
Dispatched(L) == TickDone /\ out.level = L

\* the loop runs, the window has not opened and nothing was sent yet
BeforeWindow ==
    /\ pc = "idle" /\ clock > 0 /\ last_ping_time = None
    /\ should_send_reminder(config, clock) < 0 - 15 * Minute

\* C20: starting with lastNotifiedAt = null before the window opens, with
\* ticks every 30 s and the window inside one calendar day, the loop
\* dispatches at PreWarning, then at AtDeadline, then at Escalating5m, then
\* at Escalating2m, then at MaxUrgency: no level's time bucket passes
\* without a dispatch.
C20_EveryLevelAnnounced ==
    /\ BeforeWindow ~> Dispatched(0)
    /\ \A L \in 0 .. 3 : Dispatched(L) ~> Dispatched(L + 1)

\* C20 witness: the loop started 931 s before the deadline and has just
\* dispatched at MaxUrgency, at the first tick of that bucket
C20_Witness ==
    /\ Dispatched(4)
    /\ minutes_past = 1500 + 29
    /\ last_ping_time = clock

====
